---- MODULE Spec2Model ----
(***************************************************************************)
(* State-machine model of FlyTheWPlugin (src/manager.py): the win-detection *)
(* state machine, the poll throttle, the live-takeover gate, the frame      *)
(* store and the animation cursor.                                          *)
(*                                                                          *)
(* Wall-clock time (datetime.now()) is counted in seconds, monotonic time   *)
(* (time.monotonic()) in milliseconds.  Frames are identified by their      *)
(* origin and position instead of their pixels.                             *)
(***************************************************************************)
EXTENDS Integers, Sequences, FiniteSets, TLC

(***************************************************************************)
(* Bounds of the model.                                                     *)
(***************************************************************************)
MaxWallTicks == 2      \* wall-clock steps explored
MaxMonoTicks == 3      \* monotonic-clock steps explored
MaxEvents == 2         \* events per scoreboard payload
MaxRenderTicks == 5    \* monotonic-clock steps explored for the renderer alone

(***************************************************************************)
(* Program constants.                                                       *)
(***************************************************************************)
CUBS_ABBR == "CHC"
DefaultUpdateInterval == 300
DefaultCelebrationHours == 1
DefaultAnimationFps == 12
DefaultGifDurationMs == 100
NumProgrammaticFrames == 16
FlashPeriodMs == 500
SecondsPerHour == 3600
MaxCelebrationHours == 24
MaxAnimationFps == 60
MsPerSecond == 1000

\* Optional[datetime] = None
None == -1

\* resolution of the explored clocks
WallTick == SecondsPerHour
MonoTick == DefaultGifDurationMs
MonoBoot == MsPerSecond

Max(a, b) == IF a >= b THEN a ELSE b

(***************************************************************************)
(* Configuration dictionaries handed to the plugin by its host.  A key may  *)
(* be absent; _load_config then uses its default.                           *)
(***************************************************************************)
Get(cfg, key, default) == IF key \in DOMAIN cfg THEN cfg[key] ELSE default

ValidConfigs ==
  { [enabled |-> TRUE],
    [enabled |-> TRUE, simulate_win |-> TRUE],
    [enabled |-> TRUE, celebration_hours |-> 2, update_interval |-> 2 * SecondsPerHour,
     animation_fps |-> 5] }

\* dictionaries with a setting out of the range validate_config accepts
InvalidConfigs ==
  { [enabled |-> TRUE, celebration_hours |-> 0],
    [enabled |-> TRUE, celebration_hours |-> MaxCelebrationHours + 1],
    [enabled |-> TRUE, animation_fps |-> 0],
    [enabled |-> TRUE, animation_fps |-> MaxAnimationFps + 1] }

Configs == ValidConfigs \cup InvalidConfigs

\* validate_config (lines 596-620) on the dictionary cfg
ValidateConfig(cfg) ==
  /\ Get(cfg, "celebration_hours", DefaultCelebrationHours) > 0
  /\ Get(cfg, "celebration_hours", DefaultCelebrationHours) <= MaxCelebrationHours
  /\ Get(cfg, "animation_fps", DefaultAnimationFps) > 0
  /\ Get(cfg, "animation_fps", DefaultAnimationFps) <= MaxAnimationFps

(***************************************************************************)
(* Scoreboard payloads: the JSON document of section "Inbound poll input".  *)
(* A score is a string, as the feed sends it; "" stands for an absent or    *)
(* empty score.                                                             *)
(***************************************************************************)
Competitor(side, abbr, score) ==
  [homeAway |-> side, abbreviation |-> abbr, score |-> score]

Event(state, competitors) ==
  [competitions |-> << [state |-> state, competitors |-> competitors] >>]

EvWinHome  == Event("post", << Competitor("home", "CHC", "7"), Competitor("away", "SIM", "4") >>)
EvWinAway  == Event("post", << Competitor("home", "STL", "3"), Competitor("away", "CHC", "5") >>)
EvLoss     == Event("post", << Competitor("home", "CHC", "2"), Competitor("away", "MIL", "6") >>)
EvTie      == Event("post", << Competitor("away", "CHC", "3"), Competitor("home", "PIT", "3") >>)
EvOther    == Event("post", << Competitor("home", "NYY", "9"), Competitor("away", "BOS", "1") >>)
EvLive     == Event("in",   << Competitor("home", "CHC", "8"), Competitor("away", "CIN", "") >>)
EvBadScore == Event("post", << Competitor("home", "CHC", "x"), Competitor("away", "LAD", "1") >>)
EvNoAway   == Event("post", << Competitor("home", "CHC", "6") >>)
EvNoComp   == [competitions |-> << >>]
EvOtherBad == Event("post", << Competitor("home", "NYM", "?"), Competitor("away", "ATL", "2") >>)

Events == { EvWinHome, EvWinAway, EvLoss, EvTie, EvOther, EvLive,
            EvBadScore, EvNoAway, EvNoComp, EvOtherBad }

\* the event lists explored: every list of at most one event, and the lists of
\* MaxEvents events that put a game of FirstEvents before a game of LaterEvents
FirstEvents == { EvWinAway, EvLoss, EvTie, EvOther, EvBadScore, EvOtherBad }
LaterEvents == { EvWinHome, EvBadScore }

EventLists(n) ==
  UNION { { l \in [1..k -> Events] :
              k > 1 => /\ l[1] \in FirstEvents
                       /\ \A i \in 2..k : l[i] \in LaterEvents } : k \in 0..n }

\* what api_helper.get returns: it raises, returns nothing, or returns a document
FetchRaise == [kind |-> "raise", events |-> << >>]
FetchEmpty == [kind |-> "empty", events |-> << >>]
FetchJson(events) == [kind |-> "json", events |-> events]

FetchResults ==
  { FetchRaise, FetchEmpty } \cup { FetchJson(evs) : evs \in EventLists(MaxEvents) }

(***************************************************************************)
(* int(x or 0) on a score, and the f-string that formats the score label.   *)
(***************************************************************************)
Digits == << "0", "1", "2", "3", "4", "5", "6", "7", "8", "9" >>

IsNumeric(s) == s = "" \/ \E i \in 1..Len(Digits) : Digits[i] = s

ParseScore(s) ==
  IF s = "" THEN 0 ELSE (CHOOSE i \in 1..Len(Digits) : Digits[i] = s) - 1

ScoreStr(cubs_score, opp_score) == ToString(cubs_score) \o "-" \o ToString(opp_score)

(***************************************************************************)
(* _process_scoreboard: the scan of the payload's events.  The result says  *)
(* whether the scan raised, found nothing, or stopped at a Cubs win.        *)
(***************************************************************************)
ScanNone == [kind |-> "none", cubs_score |-> 0, opp_score |-> 0, opp_abbr |-> ""]
ScanRaise == [kind |-> "raise", cubs_score |-> 0, opp_score |-> 0, opp_abbr |-> ""]
ScanWin(cubs_score, opp_score, opp_abbr) ==
  [kind |-> "win", cubs_score |-> cubs_score, opp_score |-> opp_score, opp_abbr |-> opp_abbr]

\* next((c for c in competitors if c.get("homeAway") == side), None), as a sequence
\* that is empty for None
FirstSide(competitors, side) ==
  LET I == { i \in 1..Len(competitors) : competitors[i].homeAway = side }
  IN IF I = {} THEN << >>
     ELSE << competitors[CHOOSE i \in I : \A j \in I : i <= j] >>

WinScanBugTie(home_abbr, away_abbr, home_score, away_score, rest) ==
  IF home_abbr = CUBS_ABBR
    THEN IF home_score >= away_score
           THEN ScanWin(home_score, away_score, away_abbr) ELSE rest
    ELSE IF away_score >= home_score
           THEN ScanWin(away_score, home_score, home_abbr) ELSE rest

WinScanBugHomeFirst(home_abbr, away_abbr, home_score, away_score, rest) ==
  IF home_abbr = CUBS_ABBR
    THEN IF home_score > away_score
           THEN ScanWin(home_score, away_score, away_abbr) ELSE rest
    ELSE IF away_score > home_score
           THEN ScanWin(home_score, away_score, home_abbr) ELSE rest

\* lines 462-474 and 500: did the Cubs win?  `rest` is the scan of the later events,
\* taken when the loop continues
WinScan(home_abbr, away_abbr, home_score, away_score, rest) ==
  IF home_abbr = CUBS_ABBR
    THEN IF home_score > away_score
           THEN ScanWin(home_score, away_score, away_abbr) ELSE rest
    ELSE IF away_score > home_score
           THEN ScanWin(away_score, home_score, home_abbr) ELSE rest

RECURSIVE ScanEvents(_, _)
ScanEvents(events, i) ==
  IF i > Len(events) THEN ScanNone
  ELSE
    LET event == events[i]
        rest == ScanEvents(events, i + 1)
    IN IF event.competitions = << >> THEN rest
       ELSE
         LET competition == event.competitions[1]
         IN IF competition.state # "post" THEN rest
            ELSE
              LET home_team == FirstSide(competition.competitors, "home")
                  away_team == FirstSide(competition.competitors, "away")
              IN IF home_team = << >> \/ away_team = << >> THEN rest
                 ELSE
                   LET home_abbr == home_team[1].abbreviation
                       away_abbr == away_team[1].abbreviation
                   IN IF ~IsNumeric(home_team[1].score) \/ ~IsNumeric(away_team[1].score)
                        THEN ScanRaise
                      ELSE IF CUBS_ABBR \notin {home_abbr, away_abbr} THEN rest
                      ELSE WinScan(home_abbr, away_abbr,
                                   ParseScore(home_team[1].score),
                                   ParseScore(away_team[1].score), rest)

ProcessScoreboard(data) == ScanEvents(data.events, 1)

(***************************************************************************)
(* The frame store.  The bundled GIF is, at each build, missing, unreadable,*)
(* empty, or decodes to GifRaw (the per-frame durations in milliseconds,    *)
(* None where the frame carries none).                                      *)
(***************************************************************************)
GifStates == { "missing", "corrupt", "empty", "ok" }

GifRaw == << 2 * DefaultGifDurationMs, None >>

GifFrames == [ i \in 1..Len(GifRaw) |-> [src |-> "gif", idx |-> i - 1] ]

GifDurations ==
  [ i \in 1..Len(GifRaw) |-> IF GifRaw[i] = None THEN DefaultGifDurationMs ELSE GifRaw[i] ]

\* 1.0 / max(self.animation_fps, 1.0), in milliseconds
FrameDurationOfFps(fps) == MsPerSecond \div Max(fps, 1)

ProgrammaticFrames(fps) ==
  [ frames |-> [ i \in 1..NumProgrammaticFrames |-> [src |-> "prog", idx |-> i - 1] ],
    durations |-> [ i \in 1..NumProgrammaticFrames |-> FrameDurationOfFps(fps) ] ]

BuildFramesBugEmptyGif(gif, fps) ==
  IF gif = "ok" THEN [ frames |-> GifFrames, durations |-> GifDurations ]
  ELSE IF gif = "empty" THEN [ frames |-> << >>, durations |-> << >> ]
  ELSE ProgrammaticFrames(fps)

\* _build_frames: the GIF when it loads, the programmatic flag otherwise
BuildFrames(gif, fps) ==
  IF gif = "ok" /\ Len(GifFrames) > 0
    THEN [ frames |-> GifFrames, durations |-> GifDurations ]
    ELSE ProgrammaticFrames(fps)

\* the frame stores a call of _build_frames may leave, over the states of the GIF
Builds(fps) == { BuildFrames(gif, fps) : gif \in GifStates }

(***************************************************************************)
(* State.                                                                   *)
(***************************************************************************)
VARIABLES
  config,                   \* self.config, the dictionary last handed over by the host
  update_interval_seconds,  \* self.update_interval_seconds
  celebration_hours,        \* self.celebration_hours
  animation_fps,            \* self.animation_fps
  simulate_win,             \* self.simulate_win
  celebrating,              \* self.celebrating
  win_expires_at,           \* self.win_expires_at, None or a wall-clock time
  last_win_score,           \* self.last_win_score
  last_update,              \* self.last_update, None or a wall-clock time
  win_info,                 \* self._win_info: << >> for {}, else << the record >>
  live_priority_fired,      \* self._live_priority_fired
  frames,                   \* self._frames
  frame_durations,          \* self._frame_durations, in milliseconds
  frame_index,              \* self._frame_index
  last_frame_time,          \* self._last_frame_time
  flash_on,                 \* self._flash_on
  flash_last_toggle,        \* self._flash_last_toggle
  now,                      \* datetime.now(), in seconds
  mono,                     \* time.monotonic(), in milliseconds
  call,                     \* the last call made to the plugin and what it observed
  shown,                    \* display() has rendered since the last arming
  anim,                     \* the run of display() calls since the last rebuild
  pc                        \* where a running _build_frames stands, "idle" between builds

configvars == << config, update_interval_seconds, celebration_hours, animation_fps,
                 simulate_win >>
winvars == << celebrating, win_expires_at, last_win_score, win_info, live_priority_fired >>
framevars == << frames, frame_durations >>
cursorvars == << frame_index, last_frame_time, flash_on, flash_last_toggle >>
histvars == << shown, anim >>
vars == << configvars, winvars, last_update, framevars, cursorvars, now, mono, call,
           histvars, pc >>

\* the celebration state, the poll clock, the frame store and the cursor as one value
WinState ==
  [ celebrating |-> celebrating, win_expires_at |-> win_expires_at,
    last_win_score |-> last_win_score, win_info |-> win_info,
    live_priority_fired |-> live_priority_fired, last_update |-> last_update,
    frames |-> frames, frame_durations |-> frame_durations,
    frame_index |-> frame_index, last_frame_time |-> last_frame_time,
    flash_on |-> flash_on, flash_last_toggle |-> flash_last_toggle,
    celebration_hours |-> celebration_hours, animation_fps |-> animation_fps,
    simulate_win |-> simulate_win ]

\* the record of a call: its name, the path it took, the fetch result it was given,
\* its return value, whether it armed a celebration window (activation, re-arm or
\* simulated trigger), whether it called _build_frames, the state it started from,
\* and (for has_live_content) whether it directly follows a has_live_content() call
\* that returned True
Call(op, path, data, ret, armed, built) ==
  [ op |-> op, path |-> path, data |-> data, ret |-> ret, armed |-> armed,
    built |-> built, pre |-> WinState, again |-> FALSE ]

\* the run of display() calls: the monotonic time of the last one (None before the
\* first, and after a rebuild or cleanup()), and the number n of consecutive calls,
\* each made at least the current frame's duration after the one before, that
\* followed the call which left the cursor at `start`
AnimReset(index) == [last_display |-> None, start |-> index, n |-> 0]

(***************************************************************************)
(* _load_config                                                             *)
(***************************************************************************)
LoadConfig(cfg) ==
  /\ update_interval_seconds' = Get(cfg, "update_interval", DefaultUpdateInterval)
  /\ celebration_hours' = Get(cfg, "celebration_hours", DefaultCelebrationHours)
  /\ animation_fps' = Get(cfg, "animation_fps", DefaultAnimationFps)
  /\ simulate_win' = Get(cfg, "simulate_win", FALSE)

(***************************************************************************)
(* __init__: configuration loaded, no celebration, frames built once.       *)
(***************************************************************************)
Init ==
  /\ config \in ValidConfigs
  /\ update_interval_seconds = Get(config, "update_interval", DefaultUpdateInterval)
  /\ celebration_hours = Get(config, "celebration_hours", DefaultCelebrationHours)
  /\ animation_fps = Get(config, "animation_fps", DefaultAnimationFps)
  /\ simulate_win = Get(config, "simulate_win", FALSE)
  /\ celebrating = FALSE
  /\ win_expires_at = None
  /\ last_win_score = ""
  /\ last_update = None
  /\ win_info = << >>
  /\ live_priority_fired = FALSE
  /\ \E store \in Builds(animation_fps) :
       /\ frames = store.frames
       /\ frame_durations = store.durations
  /\ frame_index = 0
  /\ last_frame_time = 0
  /\ flash_on = TRUE
  /\ flash_last_toggle = 0
  /\ now = 0
  /\ mono = MonoBoot
  /\ call = [ op |-> "init", path |-> "", data |-> FetchEmpty, ret |-> FALSE,
              armed |-> FALSE, built |-> TRUE,
              pre |-> [ celebrating |-> FALSE, win_expires_at |-> None,
                        last_win_score |-> "", win_info |-> << >>,
                        live_priority_fired |-> FALSE, last_update |-> None,
                        frames |-> << >>, frame_durations |-> << >>,
                        frame_index |-> 0, last_frame_time |-> 0,
                        flash_on |-> TRUE, flash_last_toggle |-> 0,
                        celebration_hours |-> celebration_hours,
                        animation_fps |-> animation_fps,
                        simulate_win |-> simulate_win ],
              again |-> FALSE ]
  /\ shown = FALSE
  /\ anim = AnimReset(0)
  /\ pc = "idle"

(***************************************************************************)
(* The clocks advance between calls.                                        *)
(***************************************************************************)
TickWall ==
  /\ now + WallTick <= MaxWallTicks * WallTick
  /\ now' = now + WallTick
  /\ call' = Call("tick", "", FetchEmpty, FALSE, FALSE, FALSE)
  /\ UNCHANGED << configvars, winvars, last_update, framevars, cursorvars, pc, mono,
                  histvars >>

TickMono ==
  /\ mono + MonoTick <= MonoBoot + MaxMonoTicks * MonoTick
  /\ mono' = mono + MonoTick
  /\ call' = Call("tick", "", FetchEmpty, FALSE, FALSE, FALSE)
  /\ UNCHANGED << configvars, winvars, last_update, framevars, cursorvars, pc, now,
                  histvars >>

(***************************************************************************)
(* _check_expiry at wall-clock time t: the value of self.celebrating after  *)
(* it.                                                                      *)
(***************************************************************************)
CheckExpiryBugEarly(cel, expires, t) ==
  IF cel /\ expires # None /\ t + WallTick >= expires THEN FALSE ELSE cel

CheckExpiryBugLate(cel, expires, t) ==
  IF cel /\ expires # None /\ t > expires THEN FALSE ELSE cel

CheckExpiryBugRecompute(cel, expires, t) == expires # None /\ t < expires

CheckExpiry(cel, expires, t) ==
  IF cel /\ expires # None /\ t >= expires THEN FALSE ELSE cel

\* datetime.now() + timedelta(hours=hours)
ExpiryFrom(t, hours) == t + hours * SecondsPerHour

(***************************************************************************)
(* _trigger_simulation at wall-clock time t, followed by _check_expiry.     *)
(***************************************************************************)
SimWinInfo == [cubs_abbr |-> "CHC", opp_abbr |-> "SIM", cubs_score |-> 7, opp_score |-> 4]

TriggerSimulationBugKeepFired(t, store) ==
  /\ win_expires_at' = ExpiryFrom(t, celebration_hours')
  /\ last_win_score' = "7-4"
  /\ win_info' = << SimWinInfo >>
  /\ live_priority_fired' = live_priority_fired
  /\ frames' = store.frames
  /\ frame_durations' = store.durations
  /\ shown' = FALSE
  /\ anim' = AnimReset(frame_index)

TriggerSimulation(t, store) ==
  /\ win_expires_at' = ExpiryFrom(t, celebration_hours')
  /\ last_win_score' = "7-4"
  /\ win_info' = << SimWinInfo >>
  /\ live_priority_fired' = FALSE
  /\ frames' = store.frames
  /\ frame_durations' = store.durations
  /\ shown' = FALSE
  /\ anim' = AnimReset(frame_index)

(***************************************************************************)
(* update(), simulation mode (lines 391-395).                               *)
(***************************************************************************)
UpdateSimulate ==
  /\ simulate_win
  /\ UNCHANGED << configvars, last_update, cursorvars, pc, now, mono >>
  /\ IF ~celebrating
       THEN \E store \in Builds(animation_fps) :
              /\ TriggerSimulation(now, store)
              /\ celebrating' = CheckExpiry(TRUE, win_expires_at', now)
              /\ call' = Call("update", "simulate", FetchEmpty, FALSE, TRUE, TRUE)
       ELSE /\ celebrating' = CheckExpiry(celebrating, win_expires_at, now)
            /\ UNCHANGED << win_expires_at, last_win_score, win_info,
                            live_priority_fired, framevars, histvars >>
            /\ call' = Call("update", "simulate", FetchEmpty, FALSE, FALSE, FALSE)

(***************************************************************************)
(* update(), throttled (lines 398-406).                                     *)
(***************************************************************************)
ThrottledBugNever(last, t, interval) == FALSE

Throttled(last, t, interval) == last # None /\ (t - last) < interval

UpdateThrottled ==
  /\ ~simulate_win
  /\ Throttled(last_update, now, update_interval_seconds)
  /\ celebrating' = CheckExpiry(celebrating, win_expires_at, now)
  /\ call' = Call("update", "throttled", FetchEmpty, FALSE, FALSE, FALSE)
  /\ UNCHANGED << configvars, win_expires_at, last_win_score, win_info,
                  live_priority_fired, last_update, framevars, cursorvars, pc, now,
                  mono, histvars >>

(***************************************************************************)
(* update(), fetching (lines 408-418).  The fetch returns `data`.           *)
(***************************************************************************)
ShouldTriggerBugAlways(cel, last_score, score_str) == TRUE

ShouldTriggerBugOnlyInactive(cel, last_score, score_str) == ~cel

\* line 481
ShouldTrigger(cel, last_score, score_str) == ~cel \/ last_score # score_str

\* what update() passes on from the fetch: the scan of a non-empty document, nothing
\* when the fetch raised or returned nothing (lines 408-415)
ScanOfFetch(data) == IF data.kind = "json" THEN ProcessScoreboard(data) ELSE ScanNone

LastUpdateAfterFetchBugInsideTry(scan, last, t) ==
  IF scan.kind = "raise" THEN last ELSE t

\* line 417, after the try block: the attempt is recorded whatever the fetch and the
\* scan did
LastUpdateAfterFetch(scan, last, t) == t

UpdateFetch(data) ==
  \E scan \in { ScanOfFetch(data) } :
    \E score_str \in { IF scan.kind = "win"
                         THEN ScoreStr(scan.cubs_score, scan.opp_score) ELSE "" } :
      \E trigger \in { scan.kind = "win"
                       /\ ShouldTrigger(celebrating, last_win_score, score_str) } :
        /\ ~simulate_win
        /\ ~Throttled(last_update, now, update_interval_seconds)
        /\ last_update' = LastUpdateAfterFetch(scan, last_update, now)
        /\ UNCHANGED << configvars, cursorvars, pc, now, mono >>
        /\ IF trigger
             THEN \E store \in Builds(animation_fps) :
                    /\ win_expires_at' = ExpiryFrom(now, celebration_hours)
                    /\ last_win_score' = score_str
                    /\ win_info' = << [cubs_abbr |-> CUBS_ABBR, opp_abbr |-> scan.opp_abbr,
                                       cubs_score |-> scan.cubs_score,
                                       opp_score |-> scan.opp_score] >>
                    /\ live_priority_fired' = FALSE
                    /\ frames' = store.frames
                    /\ frame_durations' = store.durations
                    /\ celebrating' = CheckExpiry(TRUE, win_expires_at', now)
                    /\ shown' = FALSE
                    /\ anim' = AnimReset(frame_index)
             ELSE /\ celebrating' = CheckExpiry(celebrating, win_expires_at, now)
                  /\ UNCHANGED << win_expires_at, last_win_score, win_info,
                                  live_priority_fired, framevars, histvars >>
        /\ call' = Call("update", "fetched", data, FALSE, trigger, trigger)

(***************************************************************************)
(* display() (lines 513-557).  render_ok is whether drawing the overlays and *)
(* presenting the frame went through without an exception.                  *)
(***************************************************************************)
FiredAfterDisplayBugKeep(fired) == fired

\* line 527
FiredAfterDisplay(fired) == TRUE

DisplayIdle ==
  /\ ~celebrating
  /\ call' = Call("display", "idle", FetchEmpty, FALSE, FALSE, FALSE)
  /\ UNCHANGED << configvars, winvars, last_update, framevars, cursorvars, pc, now,
                  mono, histvars >>

\* lines 533-536: the duration of the current frame
FrameDuration(durations, index, fps) ==
  IF durations # << >> THEN durations[(index % Len(durations)) + 1]
  ELSE FrameDurationOfFps(fps)

StepDueBugStrict(t, last, duration) == t - last > duration

\* line 538: the current frame has been up for its duration
StepDue(t, last, duration) == t - last >= duration

NextFrameIndexBugNoWrap(index, count) == IF index + 1 < count THEN index + 1 ELSE index

\* line 539
NextFrameIndex(index, count) == (index + 1) % count

FlashAfterBugCatchUp(on, t, last) ==
  IF ((t - last) \div FlashPeriodMs) % 2 = 1 THEN ~on ELSE on

\* lines 543-544: the flash flips once when its period has passed
FlashAfter(on, t, last) == IF t - last >= FlashPeriodMs THEN ~on ELSE on

DisplayRender(render_ok) ==
  /\ celebrating
  /\ \E store \in IF frames = << >> THEN Builds(animation_fps)
                   ELSE { [frames |-> frames, durations |-> frame_durations] } :
         \E step \in { StepDue(mono, last_frame_time,
                                FrameDuration(store.durations, frame_index,
                                              animation_fps)) } :
           \E index \in { IF step THEN NextFrameIndex(frame_index, Len(store.frames))
                          ELSE frame_index } :
             \E toggle \in { mono - flash_last_toggle >= FlashPeriodMs } :
               /\ frames' = store.frames
               /\ frame_durations' = store.durations
               /\ live_priority_fired' = FiredAfterDisplay(live_priority_fired)
               /\ frame_index' = index
               /\ last_frame_time' = IF step THEN mono ELSE last_frame_time
               /\ flash_on' = FlashAfter(flash_on, mono, flash_last_toggle)
               /\ flash_last_toggle' = IF toggle THEN mono ELSE flash_last_toggle
               /\ call' = Call("display", "render", FetchEmpty,
                               index < Len(store.frames) /\ render_ok, FALSE,
                               frames = << >>)
               /\ anim' = IF /\ frames # << >>
                               /\ anim.last_display # None
                               /\ mono - anim.last_display
                                    >= FrameDuration(frame_durations, frame_index,
                                                     animation_fps)
                             THEN [anim EXCEPT !.last_display = mono, !.n = @ + 1]
                             ELSE [last_display |-> mono, start |-> index, n |-> 0]
  /\ shown' = TRUE
  /\ UNCHANGED << configvars, pc, celebrating, win_expires_at, last_win_score, win_info,
                  last_update, now, mono >>

(***************************************************************************)
(* has_live_content() (lines 563-569).                                      *)
(***************************************************************************)
LiveContentBugIgnoreFired(cel, fired) == cel

LiveContent(cel, fired) == cel /\ ~fired

HasLiveContent ==
  /\ call' = [ Call("has_live_content", "", FetchEmpty,
                     LiveContent(celebrating, live_priority_fired), FALSE, FALSE)
                EXCEPT !.again = call.op = "has_live_content" /\ call.ret ]
  /\ UNCHANGED << configvars, winvars, last_update, framevars, cursorvars, pc, now,
                  mono, histvars >>

(***************************************************************************)
(* on_config_change(new_config) (lines 622-637): the host's base class      *)
(* stores the dictionary, then the plugin reloads it and rebuilds.          *)
(***************************************************************************)
OnConfigChange(new_config) ==
  /\ config' = new_config
  /\ LoadConfig(new_config)
  /\ UNCHANGED << last_update, cursorvars, pc, now, mono >>
  /\ \E store \in Builds(animation_fps') :
       IF simulate_win' /\ ~simulate_win
         THEN /\ TriggerSimulation(now, store)
              /\ celebrating' = TRUE
              /\ call' = Call("on_config_change", "trigger", FetchEmpty, FALSE, TRUE, TRUE)
         ELSE /\ frames' = store.frames
              /\ frame_durations' = store.durations
              /\ celebrating' = IF ~simulate_win' /\ simulate_win /\ celebrating
                                  THEN FALSE ELSE celebrating
              /\ anim' = AnimReset(frame_index)
              /\ UNCHANGED << win_expires_at, last_win_score, win_info,
                              live_priority_fired, shown >>
              /\ call' = Call("on_config_change",
                              IF celebrating' # celebrating THEN "cancel" ELSE "reload",
                              FetchEmpty, FALSE, FALSE, TRUE)

(***************************************************************************)
(* cleanup() (lines 655-660).                                               *)
(***************************************************************************)
CleanupBugKeepCelebrating ==
  /\ frames' = << >>
  /\ frame_durations' = << >>
  /\ win_info' = << >>
  /\ celebrating' = celebrating
  /\ live_priority_fired' = FALSE
  /\ call' = Call("cleanup", "", FetchEmpty, FALSE, FALSE, FALSE)
  /\ anim' = AnimReset(frame_index)
  /\ UNCHANGED << configvars, win_expires_at, last_win_score, last_update, cursorvars,
                  pc, now, mono, shown >>

Cleanup ==
  /\ frames' = << >>
  /\ frame_durations' = << >>
  /\ win_info' = << >>
  /\ celebrating' = FALSE
  /\ live_priority_fired' = FALSE
  /\ call' = Call("cleanup", "", FetchEmpty, FALSE, FALSE, FALSE)
  /\ anim' = AnimReset(frame_index)
  /\ UNCHANGED << configvars, win_expires_at, last_win_score, last_update, cursorvars,
                  pc, now, mono, shown >>

(***************************************************************************)
(* The plugin under a host that serialises its calls and hands over         *)
(* configurations that pass validate_config.  Spec follows the celebration  *)
(* through wall-clock time with the monotonic clock at its boot reading,    *)
(* which only the animation cursor reads; SpecAnim follows the animation    *)
(* through monotonic time at one wall-clock reading.                        *)
(***************************************************************************)
Next ==
  \/ TickWall
  \/ UpdateSimulate
  \/ UpdateThrottled
  \/ \E data \in FetchResults : UpdateFetch(data)
  \/ DisplayIdle
  \/ \E render_ok \in BOOLEAN : DisplayRender(render_ok)
  \/ HasLiveContent
  \/ \E new_config \in ValidConfigs : OnConfigChange(new_config)
  \/ Cleanup

Spec == Init /\ [][Next]_vars

\* the fetch results that differ in what they do to the frame store: none, a win,
\* another win
AnimFetchResults == { FetchEmpty, FetchJson(<< EvWinHome >>), FetchJson(<< EvWinAway >>) }

NextAnim ==
  \/ TickMono
  \/ UpdateSimulate
  \/ UpdateThrottled
  \/ \E data \in AnimFetchResults : UpdateFetch(data)
  \/ DisplayIdle
  \/ \E render_ok \in BOOLEAN : DisplayRender(render_ok)
  \/ \E new_config \in ValidConfigs : OnConfigChange(new_config)
  \/ Cleanup

SpecAnim == Init /\ [][NextAnim]_vars

\* the plugin under a host that hands every dictionary over without asking
\* validate_config first, at one reading of the clocks
NextCfg ==
  \/ UpdateSimulate
  \/ UpdateThrottled
  \/ \E data \in AnimFetchResults : UpdateFetch(data)
  \/ DisplayIdle
  \/ \E render_ok \in BOOLEAN : DisplayRender(render_ok)
  \/ \E new_config \in Configs : OnConfigChange(new_config)
  \/ Cleanup

SpecCfg == Init /\ [][NextCfg]_vars

\* the renderer alone, through monotonic time long enough for the flash period to
\* pass between two calls of display()
TickRender ==
  /\ mono + MonoTick <= MonoBoot + MaxRenderTicks * MonoTick
  /\ mono' = mono + MonoTick
  /\ call' = Call("tick", "", FetchEmpty, FALSE, FALSE, FALSE)
  /\ UNCHANGED << configvars, winvars, last_update, framevars, cursorvars, pc, now,
                  histvars >>

NextRender ==
  \/ TickRender
  \/ \E data \in AnimFetchResults : UpdateFetch(data)
  \/ DisplayIdle
  \/ \E render_ok \in BOOLEAN : DisplayRender(render_ok)

SpecRender == Init /\ [][NextRender]_vars

(***************************************************************************)
(* _build_frames statement by statement (lines 133-146, 181-185, 247-254).  *)
(* pc says which statement of a running build comes next.                   *)
(***************************************************************************)
\* _build_frames is entered.  A GIF that loads is decoded into local lists and line
\* 184 assigns self._frames; a GIF that is missing, unreadable or empty leaves the
\* store alone until line 247 of the fallback clears self._frames.
BuildBegin(gif) ==
  /\ pc = "idle"
  /\ IF BuildFrames(gif, animation_fps).frames = GifFrames
       THEN /\ frames' = GifFrames
            /\ pc' = "line 185"
       ELSE /\ frames' = << >>
            /\ pc' = "line 248"
  /\ UNCHANGED << configvars, winvars, last_update, frame_durations, cursorvars, now,
                  mono, call, histvars >>

\* line 185
BuildGifDurations ==
  /\ pc = "line 185"
  /\ frame_durations' = GifDurations
  /\ pc' = "idle"
  /\ UNCHANGED << configvars, winvars, last_update, frames, cursorvars, now, mono, call,
                  histvars >>

\* lines 248-249
BuildProgDurations ==
  /\ pc = "line 248"
  /\ frame_durations' = ProgrammaticFrames(animation_fps).durations
  /\ pc' = "line 252"
  /\ UNCHANGED << configvars, winvars, last_update, frames, cursorvars, now, mono, call,
                  histvars >>

\* lines 252-254, one pass of the loop: _render_flag_frame returns the next frame, or
\* raises and ends the build where it stands
BuildProgFrame(render_ok) ==
  /\ pc = "line 252"
  /\ IF render_ok
       THEN /\ frames' = Append(frames, ProgrammaticFrames(animation_fps).frames[Len(frames) + 1])
            /\ pc' = IF Len(frames') < NumProgrammaticFrames THEN "line 252" ELSE "idle"
       ELSE /\ frames' = frames
            /\ pc' = "idle"
  /\ UNCHANGED << configvars, winvars, last_update, frame_durations, cursorvars, now,
                  mono, call, histvars >>

NextBuild ==
  \/ \E gif \in GifStates : BuildBegin(gif)
  \/ BuildGifDurations
  \/ BuildProgDurations
  \/ \E render_ok \in BOOLEAN : BuildProgFrame(render_ok)

SpecBuild == Init /\ [][NextBuild]_vars

(***************************************************************************)
(* Vocabulary of the claims, stated on the payload itself.                  *)
(***************************************************************************)
Completed(e) == e.competitions # << >> /\ e.competitions[1].state = "post"

SidesOf(e) ==
  IF e.competitions = << >> THEN { }
  ELSE { e.competitions[1].competitors[i] : i \in 1..Len(e.competitions[1].competitors) }

\* a completed game the monitored team played in
Relevant(e) == Completed(e) /\ \E c \in SidesOf(e) : c.abbreviation = "CHC"

TeamSide(e) == CHOOSE c \in SidesOf(e) : c.abbreviation = "CHC"
OppSide(e) == CHOOSE c \in SidesOf(e) : c.abbreviation # "CHC"

Malformed(e) == Completed(e) /\ \E c \in SidesOf(e) : ~IsNumeric(c.score)

QualifyingWin(e) ==
  /\ Relevant(e)
  /\ \E c \in SidesOf(e) : c.abbreviation # "CHC"
  /\ ~Malformed(e)
  /\ ParseScore(TeamSide(e).score) > ParseScore(OppSide(e).score)

\* the position of the first completed game of the monitored team, 0 if there is none
FirstRelevant(events) ==
  LET I == { i \in 1..Len(events) : Relevant(events[i]) }
  IN IF I = { } THEN 0 ELSE CHOOSE i \in I : \A j \in I : i <= j

\* the payload's examined completed game is a qualifying win, reached without a
\* malformed game before it
ExaminedWin(data) ==
  /\ data.kind = "json"
  /\ FirstRelevant(data.events) > 0
  /\ QualifyingWin(data.events[FirstRelevant(data.events)])
  /\ \A j \in 1..(FirstRelevant(data.events) - 1) : ~Malformed(data.events[j])

ExaminedGame(data) == data.events[FirstRelevant(data.events)]

ExpectedRecord(e) ==
  [ cubs_abbr |-> "CHC", opp_abbr |-> OppSide(e).abbreviation,
    cubs_score |-> ParseScore(TeamSide(e).score),
    opp_score |-> ParseScore(OppSide(e).score) ]

\* "<team score>-<opponent score>", written from the scores as the feed sent them
ShownScore(s) == IF s = "" THEN "0" ELSE s
ExpectedLabel(e) == ShownScore(TeamSide(e).score) \o "-" \o ShownScore(OppSide(e).score)

Fetched == call.op = "update" /\ call.path = "fetched"

(***************************************************************************)
(* C1: an update() that fetches while Inactive and whose examined completed *)
(* game is a win of the monitored team leaves the state Active, with        *)
(* expiresAt = now + celebrationHours, the game's record, the label         *)
(* "<team score>-<opponent score>", livePriorityConsumed = false and the    *)
(* frames rebuilt.                                                          *)
(***************************************************************************)
C1_WinActivates ==
  (Fetched /\ ~call.pre.celebrating /\ ExaminedWin(call.data)) =>
    /\ celebrating
    /\ win_expires_at = now + celebration_hours * SecondsPerHour
    /\ win_info = << ExpectedRecord(ExaminedGame(call.data)) >>
    /\ last_win_score = ExpectedLabel(ExaminedGame(call.data))
    /\ ~live_priority_fired
    /\ call.built
    /\ frames # << >>

C1_Witness ==
  /\ Fetched
  /\ ~call.pre.celebrating
  /\ call.data = FetchJson(<< EvWinAway >>)
  /\ celebrating
  /\ last_win_score = "5-3"
  /\ win_info = << [cubs_abbr |-> "CHC", opp_abbr |-> "STL", cubs_score |-> 5,
                    opp_score |-> 3] >>
  /\ win_expires_at = now + SecondsPerHour

(***************************************************************************)
(* C2: an update() made while Active whose payload reports a qualifying win *)
(* with the score label of the active one changes none of expiresAt,        *)
(* winRecord, scoreLabel, livePriorityConsumed and rebuilds no frames.      *)
(***************************************************************************)
C2_SameLabelIdempotent ==
  ( /\ Fetched
    /\ call.pre.celebrating
    /\ ExaminedWin(call.data)
    /\ ExpectedLabel(ExaminedGame(call.data)) = call.pre.last_win_score ) =>
    /\ win_expires_at = call.pre.win_expires_at
    /\ win_info = call.pre.win_info
    /\ last_win_score = call.pre.last_win_score
    /\ live_priority_fired = call.pre.live_priority_fired
    /\ ~call.built
    /\ ~call.armed

C2_Witness ==
  /\ Fetched
  /\ call.pre.celebrating
  /\ call.pre.live_priority_fired
  /\ call.pre.last_win_score = "7-4"
  /\ call.data = FetchJson(<< EvWinHome >>)
  /\ celebrating
  /\ live_priority_fired
  /\ call.pre.last_update # None
  /\ now > call.pre.last_update
  /\ win_expires_at = call.pre.win_expires_at

(***************************************************************************)
(* C3: an update() made while Active whose payload reports a qualifying win *)
(* with a different score label resets livePriorityConsumed, re-arms        *)
(* expiresAt to now + celebrationHours, replaces winRecord and scoreLabel   *)
(* and rebuilds the frames.                                                 *)
(***************************************************************************)
C3_NewLabelRearms ==
  ( /\ Fetched
    /\ call.pre.celebrating
    /\ ExaminedWin(call.data)
    /\ ExpectedLabel(ExaminedGame(call.data)) # call.pre.last_win_score ) =>
    /\ ~live_priority_fired
    /\ win_expires_at = now + celebration_hours * SecondsPerHour
    /\ win_info = << ExpectedRecord(ExaminedGame(call.data)) >>
    /\ last_win_score = ExpectedLabel(ExaminedGame(call.data))
    /\ call.built
    /\ call.armed
    /\ frames # << >>

C3_Witness ==
  /\ Fetched
  /\ call.pre.celebrating
  /\ call.pre.live_priority_fired
  /\ call.pre.last_win_score = "7-4"
  /\ call.data = FetchJson(<< EvWinAway >>)
  /\ last_win_score = "5-3"
  /\ ~live_priority_fired
  /\ win_expires_at > call.pre.win_expires_at
  /\ celebrating

(***************************************************************************)
(* C4: an update() whose payload holds no qualifying win (other teams, a    *)
(* loss, a tie, a game not in state "post") neither activates nor re-arms:  *)
(* expiresAt, winRecord, scoreLabel and livePriorityConsumed are unchanged, *)
(* and active changes only by expiry.                                       *)
(***************************************************************************)
NoQualifyingWin(data) ==
  data.kind = "json" /\ \A i \in 1..Len(data.events) : ~QualifyingWin(data.events[i])

C4_NoWinNoChange ==
  (Fetched /\ NoQualifyingWin(call.data)) =>
    /\ win_expires_at = call.pre.win_expires_at
    /\ win_info = call.pre.win_info
    /\ last_win_score = call.pre.last_win_score
    /\ live_priority_fired = call.pre.live_priority_fired
    /\ ~call.armed
    /\ ~call.built
    /\ \/ celebrating = call.pre.celebrating
       \/ call.pre.celebrating /\ ~celebrating /\ now >= win_expires_at

C4_Witness ==
  /\ Fetched
  /\ call.data = FetchJson(<< EvTie >>)
  /\ call.pre.celebrating
  /\ celebrating
  /\ win_info # << >>

(***************************************************************************)
(* C5: no update() or display() call takes the state from Active to         *)
(* Inactive at a time before expiresAt.                                     *)
(***************************************************************************)
C5_NoEarlyExpiry ==
  (call.op \in { "update", "display" } /\ call.pre.celebrating /\ ~celebrating) =>
    /\ call.pre.win_expires_at # None
    /\ now >= call.pre.win_expires_at

C5_Witness ==
  /\ call.op = "update"
  /\ call.pre.celebrating
  /\ ~call.armed
  /\ celebrating
  /\ now < win_expires_at
  /\ win_expires_at < now + celebration_hours * SecondsPerHour

(***************************************************************************)
(* C6: every update(), on every path, ends with the expiry check: when it   *)
(* returns, Active implies now < expiresAt, and an Active state whose       *)
(* expiresAt has passed is Inactive unless the same call armed a new window.*)
(***************************************************************************)
C6_ExpiryOnEveryUpdate ==
  call.op = "update" =>
    /\ celebrating => (win_expires_at # None /\ now < win_expires_at)
    /\ ( /\ call.pre.celebrating
         /\ call.pre.win_expires_at # None
         /\ now >= call.pre.win_expires_at
         /\ ~call.armed ) => ~celebrating

C6_Witness ==
  /\ call.op = "update"
  /\ call.path = "throttled"
  /\ call.pre.celebrating
  /\ ~celebrating
  /\ now >= win_expires_at

(***************************************************************************)
(* C7: a display() call made at a time now >= expiresAt finds the           *)
(* celebration expired: it leaves the state Inactive and returns False.     *)
(***************************************************************************)
C7_DisplayChecksExpiry ==
  ( /\ call.op = "display"
    /\ call.pre.celebrating
    /\ call.pre.win_expires_at # None
    /\ now >= call.pre.win_expires_at ) =>
    /\ ~celebrating
    /\ ~call.ret

(***************************************************************************)
(* C8: a display() that returns True leaves livePriorityConsumed = true;    *)
(* has_live_content() is true exactly when Active and not consumed; once    *)
(* consumed, it stays false after every update() and display() that does    *)
(* not arm a new window.                                                    *)
(***************************************************************************)
C8_GateConsumedByDisplay ==
  /\ (call.op = "display" /\ call.ret) => live_priority_fired
  /\ call.op = "has_live_content" => (call.ret <=> (celebrating /\ ~live_priority_fired))
  /\ ( /\ call.op \in { "update", "display" }
       /\ call.pre.live_priority_fired
       /\ ~call.armed ) => (live_priority_fired /\ ~(celebrating /\ ~live_priority_fired))

C8_Witness ==
  /\ call.op = "has_live_content"
  /\ ~call.ret
  /\ celebrating
  /\ live_priority_fired
  /\ shown

C10_Throttle ==
  /\ Fetched =>
       /\ ~simulate_win
       /\ \/ call.pre.last_update = None
          \/ now - call.pre.last_update >= update_interval_seconds
       /\ last_update = now
  /\ (call.op = "update" /\ call.path = "throttled") =>
       /\ call.pre.last_update # None
       /\ now - call.pre.last_update < update_interval_seconds
       /\ last_update = call.pre.last_update

C10_Witness ==
  /\ Fetched
  /\ call.data = FetchRaise
  /\ call.pre.last_update # None
  /\ now - call.pre.last_update >= update_interval_seconds
  /\ last_update = now
  /\ last_update > call.pre.last_update

(***************************************************************************)
(* C11: fetch errors are no-ops.  An update() whose fetch raises, returns   *)
(* nothing or returns a malformed payload leaves expiresAt, winRecord,      *)
(* scoreLabel and livePriorityConsumed as they were, changes active only by *)
(* expiry, and records the attempt in lastPollTime.                         *)
(***************************************************************************)
\* int() fails on a score of the game's home or away side
Unparsable(e) ==
  /\ Completed(e)
  /\ FirstSide(e.competitions[1].competitors, "home") # << >>
  /\ FirstSide(e.competitions[1].competitors, "away") # << >>
  /\ \/ ~IsNumeric(FirstSide(e.competitions[1].competitors, "home")[1].score)
     \/ ~IsNumeric(FirstSide(e.competitions[1].competitors, "away")[1].score)

\* the fetch failed, or the scan of its payload fails before it finds a qualifying win
FetchError(data) ==
  \/ data.kind \in { "raise", "empty" }
  \/ /\ data.kind = "json"
     /\ \E j \in 1..Len(data.events) :
          /\ Unparsable(data.events[j])
          /\ \A i \in 1..(j - 1) : ~QualifyingWin(data.events[i])

\* the state machine is as the call found it, and the attempt is recorded
FetchWasNoOp ==
  /\ win_expires_at = call.pre.win_expires_at
  /\ win_info = call.pre.win_info
  /\ last_win_score = call.pre.last_win_score
  /\ live_priority_fired = call.pre.live_priority_fired
  /\ ~call.armed
  /\ ~call.built
  /\ last_update = now
  /\ \/ celebrating = call.pre.celebrating
     \/ call.pre.celebrating /\ ~celebrating /\ now >= win_expires_at

\* C11 as claimed: a payload with a non-numeric score in any completed game is a
\* no-op.
C11_MalformedPayloadNoOp ==
  ( /\ Fetched
    /\ \/ call.data.kind \in { "raise", "empty" }
       \/ \E j \in 1..Len(call.data.events) : Unparsable(call.data.events[j]) ) =>
    FetchWasNoOp

\* C11 as amended: the malformed game counts when the scan meets it, that is, when
\* no qualifying win precedes it in the payload.
C11_FetchErrorsNoOp ==
  (Fetched /\ FetchError(call.data)) => FetchWasNoOp

C11_Witness ==
  /\ Fetched
  /\ call.data = FetchJson(<< EvBadScore >>)
  /\ call.pre.celebrating
  /\ call.pre.last_update # None
  /\ call.pre.last_update < now
  /\ celebrating
  /\ last_update = now

(***************************************************************************)
(* C12: only the first completed game of the monitored team decides a poll: *)
(* when that game is no qualifying win, no later game of the payload        *)
(* activates or re-arms the celebration, and a poll that arms does so with  *)
(* the record of that first game.                                           *)
(***************************************************************************)
C12_FirstRelevantDecides ==
  (Fetched /\ call.data.kind = "json" /\ FirstRelevant(call.data.events) > 0) =>
    /\ ~QualifyingWin(ExaminedGame(call.data)) => ~call.armed
    /\ call.armed => win_info = << ExpectedRecord(ExaminedGame(call.data)) >>

(***************************************************************************)
(* C13: animation cycling.  While Active and with no rebuild in between, N  *)
(* consecutive display() calls, each made at least the current frame's      *)
(* duration after the one before, advance frameIndex by exactly N modulo    *)
(* frameCount, wrapping from the last frame to frame 0.                     *)
(***************************************************************************)
C13_AnimationCycling ==
  anim.n > 0 =>
    /\ frames # << >>
    /\ frame_index = (anim.start + anim.n) % Len(frames)

C13_Witness ==
  /\ call.op = "display"
  /\ celebrating
  /\ anim.n = 2
  /\ anim.start = Len(frames) - 1
  /\ frame_index = 1

(***************************************************************************)
(* C14: configuration errors are rejected.  After on_config_change with a   *)
(* dictionary whose celebration_hours is outside (0, 24] or whose           *)
(* animation_fps is outside (0, 60], the plugin still uses the              *)
(* celebrationHours and animationFps it used before the call.               *)
(***************************************************************************)
C14_InvalidConfigRejected ==
  (call.op = "on_config_change" /\ ~ValidateConfig(config)) =>
    /\ celebration_hours = call.pre.celebration_hours
    /\ animation_fps = call.pre.animation_fps

(***************************************************************************)
(* C15: simulated trigger and cancellation.  While simulate_win is on,      *)
(* update() does not fetch and leaves lastPollTime alone, and from Inactive *)
(* it activates with the canned record (CHC 7, SIM 4, label "7-4"),         *)
(* expiresAt = now + celebrationHours and livePriorityConsumed = false.  A  *)
(* config change that turns simulate_win off while Active leaves the state  *)
(* Inactive; one that turns it on re-arms the celebration (new expiresAt,   *)
(* livePriorityConsumed = false, frames rebuilt).                           *)
(***************************************************************************)
SimulatedWindow ==
  /\ celebrating
  /\ win_info = << [cubs_abbr |-> "CHC", opp_abbr |-> "SIM", cubs_score |-> 7,
                    opp_score |-> 4] >>
  /\ last_win_score = "7-4"
  /\ win_expires_at = now + celebration_hours * SecondsPerHour
  /\ ~live_priority_fired

C15_SimulateTriggerAndCancel ==
  /\ (call.op = "update" /\ call.pre.simulate_win) =>
       /\ call.path = "simulate"
       /\ last_update = call.pre.last_update
       /\ ~call.pre.celebrating => SimulatedWindow
  /\ (call.op = "on_config_change" /\ call.pre.simulate_win /\ ~simulate_win
        /\ call.pre.celebrating) => ~celebrating
  /\ (call.op = "on_config_change" /\ ~call.pre.simulate_win /\ simulate_win) =>
       /\ SimulatedWindow
       /\ call.armed
       /\ call.built
       /\ frames # << >>

C15_Witness ==
  /\ call.op = "on_config_change"
  /\ ~call.pre.simulate_win
  /\ simulate_win
  /\ call.pre.celebrating
  /\ call.pre.live_priority_fired
  /\ call.pre.last_win_score = "5-3"
  /\ now > 0
  /\ win_expires_at > call.pre.win_expires_at
  /\ ~live_priority_fired

(***************************************************************************)
(* C16: the frame source never yields an empty sequence.  After every frame *)
(* build (at init, on a new win, on a simulated trigger, on config change), *)
(* whatever the state of the bundled asset, the frame sequence is non-empty *)
(* and has one duration per frame; and Active implies a non-empty frame     *)
(* sequence.                                                                *)
(***************************************************************************)
C16_FramesNeverEmpty ==
  /\ call.built => (frames # << >> /\ Len(frame_durations) = Len(frames))
  /\ celebrating => frames # << >>

C16_Witness ==
  /\ Fetched
  /\ call.armed
  /\ call.built
  /\ call.pre.frames = << >>
  /\ celebrating
  /\ Len(frames) = NumProgrammaticFrames
  /\ Len(frame_durations) = NumProgrammaticFrames

(***************************************************************************)
(* C17: in every reachable state, Active implies that a winRecord is        *)
(* present and that expiresAt is set.                                       *)
(***************************************************************************)
C17_ActiveHasRecord ==
  celebrating => (win_info # << >> /\ win_expires_at # None)

C17_Witness ==
  /\ Fetched
  /\ call.armed
  /\ ~call.pre.celebrating
  /\ call.pre.win_info = << >>
  /\ call.pre.win_expires_at # None
  /\ celebrating
  /\ win_info # << >>
  /\ win_expires_at > call.pre.win_expires_at

(***************************************************************************)
(* C18: the animation cursor is reset whenever the frame sequence is        *)
(* rebuilt.  After every rebuild caused by a new win, a re-arm, a simulated *)
(* trigger or a config change, frameIndex is 0 and the frame and flash      *)
(* timers are reset (to zero or to the current monotonic time), whatever    *)
(* the cursor was before.                                                   *)
(***************************************************************************)
C18_CursorResetOnRebuild ==
  (call.op \in { "update", "on_config_change" } /\ call.built) =>
    /\ frame_index = 0
    /\ last_frame_time \in { 0, mono }
    /\ flash_last_toggle \in { 0, mono }

(***************************************************************************)
(* C19: the frame sequence is swapped atomically.  At no point of a rebuild *)
(* does the frame store hold an empty or partially built sequence, or a     *)
(* frame list whose length differs from that of the duration list.          *)
(***************************************************************************)
C19_AtomicSwap ==
  /\ frames # << >>
  /\ Len(frames) = Len(frame_durations)
  /\ frames \in { GifFrames, ProgrammaticFrames(animation_fps).frames }

(***************************************************************************)
(* C20: the expiry transition changes only the active flag.  expiresAt,     *)
(* winRecord, scoreLabel, livePriorityConsumed, the frame sequence and the  *)
(* animation cursor are after the expiry check what they were before it;    *)
(* and while Inactive the stale expiresAt causes no further transition: a   *)
(* call that arms nothing leaves the state Inactive and as it was, and a    *)
(* call that arms a window leaves it Active.                                *)
(***************************************************************************)
OnlyActiveMayDiffer ==
  /\ win_expires_at = call.pre.win_expires_at
  /\ win_info = call.pre.win_info
  /\ last_win_score = call.pre.last_win_score
  /\ live_priority_fired = call.pre.live_priority_fired
  /\ frames = call.pre.frames
  /\ frame_durations = call.pre.frame_durations
  /\ frame_index = call.pre.frame_index
  /\ last_frame_time = call.pre.last_frame_time
  /\ flash_on = call.pre.flash_on
  /\ flash_last_toggle = call.pre.flash_last_toggle

C20_ExpiryChangesOnlyActive ==
  /\ (call.op = "update" /\ call.pre.celebrating /\ ~celebrating) =>
       OnlyActiveMayDiffer
  /\ (call.op \in { "update", "display", "has_live_content" }
        /\ ~call.pre.celebrating /\ ~call.armed) =>
       (~celebrating /\ OnlyActiveMayDiffer)
  /\ (call.op = "update" /\ ~call.pre.celebrating /\ call.armed) => celebrating

C20_Witness ==
  /\ call.op = "update"
  /\ call.pre.celebrating
  /\ ~celebrating
  /\ now >= win_expires_at
  /\ win_info # << >>
  /\ last_win_score = "5-3"
  /\ live_priority_fired
  /\ frame_index = 1

(***************************************************************************)
(* C21.  One call of display() steps the frame cursor at most once and      *)
(* flips the flash at most once, however long ago the previous call was:    *)
(* the cursor stays or moves to the next frame modulo the frame count       *)
(* exactly when the current frame's duration has passed on the frame timer, *)
(* the flash flips exactly when its 0.5 s period has passed on the flash    *)
(* timer, and neither timer is touched by the other's step.                 *)
(***************************************************************************)
Rendered == call.op = "display" /\ call.path = "render"

FrameStepWasDue ==
  mono - call.pre.last_frame_time
    >= FrameDuration(frame_durations, call.pre.frame_index, animation_fps)

FlashToggleWasDue == mono - call.pre.flash_last_toggle >= FlashPeriodMs

C21_OneStepPerRender ==
  Rendered =>
    /\ frame_index = IF FrameStepWasDue
                       THEN (call.pre.frame_index + 1) % Len(frames)
                       ELSE call.pre.frame_index
    /\ last_frame_time = IF FrameStepWasDue THEN mono ELSE call.pre.last_frame_time
    /\ flash_on = IF FlashToggleWasDue THEN ~call.pre.flash_on ELSE call.pre.flash_on
    /\ flash_last_toggle = IF FlashToggleWasDue THEN mono
                            ELSE call.pre.flash_last_toggle

\* a display() made three frame durations after the last step, before the flash
\* period has passed: one step, no flip
C21_Witness ==
  /\ Rendered
  /\ call.pre.celebrating
  /\ call.pre.frames = frames
  /\ call.pre.last_frame_time = MonoBoot
  /\ mono - call.pre.last_frame_time
       >= 3 * FrameDuration(frame_durations, call.pre.frame_index, animation_fps)
  /\ frame_index = (call.pre.frame_index + 1) % Len(frames)
  /\ last_frame_time = mono
  /\ ~FlashToggleWasDue
  /\ flash_on = call.pre.flash_on
  /\ flash_last_toggle = call.pre.flash_last_toggle

(***************************************************************************)
(* C22.  A completed game is celebrated for one window only: an update()    *)
(* made while Inactive after the window of the win with score label L has   *)
(* expired, whose payload still reports that win with label L, leaves the   *)
(* state Inactive, and neither re-arms the expiry, nor resets               *)
(* livePriorityConsumed, nor rebuilds the frames.                           *)
(***************************************************************************)
\* the call started Inactive with the record and label of a win, not the simulated
\* one, whose window is over
StartedExpired ==
  /\ ~call.pre.celebrating
  /\ call.pre.win_info # << >>
  /\ call.pre.win_info # << SimWinInfo >>
  /\ call.pre.win_expires_at # None
  /\ now >= call.pre.win_expires_at

C22_OneWindowPerGame ==
  ( /\ Fetched
    /\ StartedExpired
    /\ ExaminedWin(call.data)
    /\ ExpectedLabel(ExaminedGame(call.data)) = call.pre.last_win_score ) =>
    /\ ~celebrating
    /\ win_expires_at = call.pre.win_expires_at
    /\ live_priority_fired = call.pre.live_priority_fired
    /\ ~call.built

(***************************************************************************)
(* C23.  With simulate_win left on, the simulated celebration runs for one  *)
(* window: an update() made in simulation mode while Inactive after the     *)
(* simulated window has expired leaves the state Inactive, with the same    *)
(* expiresAt and livePriorityConsumed and no rebuild.  (Turning             *)
(* simulate_win on again always re-arms at once, so a call that starts      *)
(* Inactive in simulation mode with the canned record follows an expiry     *)
(* with the flag on.)                                                       *)
(***************************************************************************)
C23_SimulateSingleWindow ==
  ( /\ call.op = "update"
    /\ call.pre.simulate_win
    /\ ~call.pre.celebrating
    /\ call.pre.win_info = << SimWinInfo >>
    /\ call.pre.win_expires_at # None
    /\ now >= call.pre.win_expires_at ) =>
    /\ ~celebrating
    /\ win_expires_at = call.pre.win_expires_at
    /\ live_priority_fired = call.pre.live_priority_fired
    /\ ~call.built

(***************************************************************************)
(* C24.  The animation cursor always indexes an existing frame: whenever    *)
(* the frame sequence is non-empty, frameIndex < frameCount, also after a   *)
(* rebuild that leaves fewer frames than before, so the frame a display()   *)
(* made while Active reads at its cursor exists.                            *)
(***************************************************************************)
C24_CursorInRange ==
  /\ frames # << >> => frame_index < Len(frames)
  /\ Rendered => frame_index < Len(frames)

====
